---- MODULE Spec2Model ----
(***************************************************************************)
(* Model of the audio event-detection pipeline of sound_monitor.py:        *)
(* AudioProcessor.start_recording / stop_recording (run on the UI thread), *)
(* AudioProcessor._record_loop (run on a worker thread per start) and      *)
(* AudioProcessor._finalize_event (run on either).                         *)
(*                                                                         *)
(* Time is wall-clock time in milliseconds; it advances with the reads,    *)
(* each of which waits for the CHUNK frames it returns.  A chunk is        *)
(* the record [n |-> its position in the ingested stream, db |-> the level *)
(* calculate_db reports for it].  File names are not modelled, so          *)
(* segment_start_time, which only names segment files, is left out; the    *)
(* loop's local "data" is cleared once the pass that read it is over.      *)
(***************************************************************************)
EXTENDS Integers, Sequences, FiniteSets, TLC

\* ------------------------------------------------------------ constants
CHUNK == 1024
RATE == 44100
RECORD_SECONDS == 60
pre_event_buffer_seconds == 2
post_event_buffer_seconds == 2
\* the 0.1 s of "if duration < 0.1", in milliseconds
MIN_EVENT_MS == 100
\* the margin of "event_peak_db >= threshold_db + 10"
EXTREME_MARGIN == 10
\* threshold_db as set by __init__
DEFAULT_THRESHOLD == 80
\* the wind filter's cutoff (Hz) before set_wind_filter_cutoff is called
DEFAULT_CUTOFF == 80

\* --------------------------------------------------------------- bounds
\* chunks the audio source delivers in a behaviour of Spec
MaxChunks == 5
\* chunks the audio source delivers in a behaviour of SpecRestart
MaxRestartChunks == 3
\* chunks the audio source delivers in a behaviour of SpecStream
MaxStreamChunks == 6
\* device sample rates offered by set_device: 512 * (1..MaxRateUnits) Hz
MaxRateUnits == 2
\* chunks the audio source delivers in a behaviour of SpecLong
MaxLongChunks == 90
\* in SpecLong the source may be loud at the chunks k * FreeEvery - 1 and k * FreeEvery
FreeEvery == 30
\* samples in an audio handed to apply_wind_filter in SpecWind
MaxWindLen == 2
\* bytes in a byte string handed to calculate_db in SpecDb
MaxDbBytes == 4
\* bytes in a byte string handed to detect_low_frequency in SpecClassifier
MaxClassifierBytes == 8
\* chunks the source delivers in SpecVideo
MaxVideoChunks == 4
\* log_event calls before the event store is queried in SpecStore
MaxStoreRows == 2

None == 0 - 1
\* levels calculate_db reports for the chunks the source delivers
DbLevels == {70, 80, 95}
\* rates detect_sample_rate reports for the selectable devices; they are taken
\* as multiples of CHUNK / 2, so that the post-roll lasts 1..MaxRateUnits chunks
DeviceRates == {512 * k : k \in 1..MaxRateUnits}

\* the worker threads: the thread of a recording and the thread of the
\* recording before it, which stop_recording does not wait for
Threads == {1, 2}
\* thread 0 is the UI thread; it runs _finalize_event from stop_recording
UI == 0
Callers == {UI} \cup Threads

VARIABLES
    \* AudioProcessor attributes
    recording, stream, device_sample_rate, threshold_db,
    current_segment,
    event_in_progress, event_start_time, event_peak_db, event_samples,
    audio_ring_buffer,
    video_enabled, video_writer, video_event_filename,
    \* the UI thread's position inside stop_recording
    upc,
    \* per worker thread: position in _record_loop and its locals
    wpc, post_event_counter, data,
    \* per caller of _finalize_event: its locals duration, video_filename and
    \* event_audio
    duration, video_filename, event_audio,
    \* environment: wall clock, chunks delivered so far, files, database, signals
    now, ingested, saved, db_rows, emitted, video_files,
    \* worker threads started so far
    n_start,
    \* history: the chunks processed so far, in the order of their processing,
    \* and the position among them of the chunk that opened the latest event
    processed, event_opened_at,
    \* the wind filter: its two settings, and the argument and the result of
    \* the latest apply_wind_filter call
    wind_filter_enabled, wind_filter_cutoff, filter_input, filter_output,
    \* a function of the processor called on its own: the function, the
    \* arguments and the outcome of the latest such call
    call_fn, call_args, call_result

procVars == <<recording, stream, device_sample_rate, threshold_db,
              current_segment,
              event_in_progress, event_start_time, event_peak_db, event_samples,
              audio_ring_buffer,
              video_enabled, video_writer, video_event_filename>>
threadVars == <<upc, wpc, post_event_counter, data, duration, video_filename,
                event_audio>>
envVars == <<now, ingested, saved, db_rows, emitted, video_files, n_start, processed,
             event_opened_at>>
windVars == <<wind_filter_enabled, wind_filter_cutoff, filter_input, filter_output>>
callVars == <<call_fn, call_args, call_result>>
vars == <<procVars, threadVars, envVars, windVars, callVars>>

\* ------------------------------------------------------------- helpers
NoChunk == [n |-> 0, db |-> 0]

\* the signals the model counts: event_detected, the "EXTREME NOISE DETECTED"
\* status, and error_occurred by the place that emits it
Signals == {"event_detected", "extreme", "error_saving", "error_logging",
            "error_recording", "error_start", "error_video"}

\* the counts after emitting each signal of the sequence sigs once
RECURSIVE Emit(_, _)
Emit(counts, sigs) ==
    IF sigs = <<>> THEN counts
    ELSE Emit([counts EXCEPT ![Head(sigs)] = @ + 1], Tail(sigs))

\* mutant: the first argument wins
Max_first(a, b) == a

\* Python's max of two numbers
Max(a, b) == IF a >= b THEN a ELSE b

\* calculate_db(audio_data): the level of one chunk
calculate_db(audio_data) == audio_data.db

\* self.max_ring_buffer_samples = int(pre_event_buffer_seconds * RATE / CHUNK)
max_ring_buffer_samples == (pre_event_buffer_seconds * RATE) \div CHUNK

\* mutant: one more chunk of post-roll is needed
post_event_samples_needed_longer(rate) == (post_event_buffer_seconds * rate) \div CHUNK + 1

\* int(self.post_event_buffer_seconds * self.device_sample_rate / CHUNK)
post_event_samples_needed(rate) == (post_event_buffer_seconds * rate) \div CHUNK

\* the time (ms) the source takes to deliver the CHUNK frames of one read
ChunkMs(rate) == (1000 * CHUNK) \div rate

\* mutant: levels up to 10 dB below the threshold count as loud
IsLoud_lenient(db_level, threshold) == db_level + EXTREME_MARGIN >= threshold

\* "if db_level >= self.threshold_db"
IsLoud(db_level, threshold) == db_level >= threshold

\* mutant: the event starts without the ring buffer's chunks
OpenSamples_no_pre_roll(buffer, chunk) == <<chunk>>

\* "self.event_samples = list(self.audio_ring_buffer) + [data]"
OpenSamples(buffer, chunk) == Append(buffer, chunk)

\* mutant: the peak follows the latest loud chunk
ContinuePeak_latest(peak, db_level) == db_level

\* "self.event_peak_db = max(self.event_peak_db, db_level)"
ContinuePeak(peak, db_level) == Max(peak, db_level)

\* mutant: the post-roll lasts one chunk longer
PostRollExpired_late(counter, rate) == counter > post_event_samples_needed(rate)

\* "if post_event_counter >= post_event_samples_needed"
PostRollExpired(counter, rate) == counter >= post_event_samples_needed(rate)

\* mutant: no event is too short
IsShort_never(d) == d < 0

\* "if duration < 0.1" (duration in ms)
IsShort(d) == d < MIN_EVENT_MS

\* mutant: the row is there whenever the file is
Persisted_if_encoded(enc_ok, db_ok) == enc_ok

\* "if filename: self.log_event(...)", whose INSERT succeeds or raises
Persisted(enc_ok, db_ok) == enc_ok /\ db_ok

\* mutant: the segment is flushed one chunk late
SegmentFull_late(segment, rate) == Len(segment) * CHUNK > rate * RECORD_SECONDS

\* "len(self.current_segment) * CHUNK >= self.device_sample_rate * RECORD_SECONDS"
SegmentFull(segment, rate) == Len(segment) * CHUNK >= rate * RECORD_SECONDS

\* mutant: pop() instead of pop(0): the newest chunk is dropped
RingPush_drops_newest(buffer, chunk) ==
    LET appended == Append(buffer, chunk)
    IN  IF Len(appended) > max_ring_buffer_samples
        THEN SubSeq(appended, 1, Len(appended) - 1) ELSE appended

\* audio_ring_buffer.append(data); pop(0) when longer than the maximum
RingPush(buffer, chunk) ==
    LET appended == Append(buffer, chunk)
    IN  IF Len(appended) > max_ring_buffer_samples THEN Tail(appended) ELSE appended

RECURSIVE SumDb(_)
SumDb(samples) ==
    IF samples = <<>> THEN 0 ELSE calculate_db(Head(samples)) + SumDb(Tail(samples))

\* ---------------------------------------------------------------- Init
Init ==
    /\ recording = FALSE
    /\ stream = None
    /\ device_sample_rate \in DeviceRates
    /\ threshold_db = DEFAULT_THRESHOLD
    /\ current_segment = <<>>
    /\ event_in_progress = FALSE
    /\ event_start_time = None
    /\ event_peak_db = 0
    /\ event_samples = <<>>
    /\ audio_ring_buffer = <<>>
    /\ video_enabled = FALSE
    /\ video_writer = None
    /\ video_event_filename = None
    /\ upc = "idle"
    /\ wpc = [t \in Threads |-> "unborn"]
    /\ post_event_counter = [t \in Threads |-> 0]
    /\ data = [t \in Threads |-> NoChunk]
    /\ duration = [c \in Callers |-> 0]
    /\ video_filename = [c \in Callers |-> None]
    /\ event_audio = [c \in Callers |-> <<>>]
    /\ now = 0
    /\ ingested = 0
    /\ saved = <<>>
    /\ db_rows = <<>>
    /\ emitted = [kind \in Signals |-> 0]
    /\ video_files = {}
    /\ n_start = 0
    /\ processed = <<>>
    /\ event_opened_at = 0
    /\ wind_filter_enabled = FALSE
    /\ wind_filter_cutoff = DEFAULT_CUTOFF
    /\ filter_input = <<>>
    /\ filter_output = <<>>
    /\ call_fn = "none"
    /\ call_args = <<>>
    /\ call_result = <<>>


\* ------------------------------------------------ collaborators' calls
\* save_audio_segment(audio_data, timestamp): one call, which either writes
\* the file and returns its name or emits "Error saving audio" and returns None
SaveCall(kind, audio, ok) == [kind |-> kind, audio |-> audio, ok |-> ok]

SavedAfter(kind, audio, ok) == Append(saved, SaveCall(kind, audio, ok))

\* mutant: a failed encoding is not reported
SaveSignals_silent(ok) == <<>>

\* the signals one save_audio_segment call emits
SaveSignals(ok) == IF ok THEN <<>> ELSE <<"error_saving">>

\* mutant: event_detected is emitted outside the try, also after a failed INSERT
LogSignals_always_detected(db_ok) ==
    IF db_ok THEN <<"event_detected">> ELSE <<"error_logging", "event_detected">>

\* log_event(...): the INSERT, then event_detected.emit; an exception of the
\* INSERT is caught and reported with "Error logging event"
LogSignals(db_ok) == IF db_ok THEN <<"event_detected">> ELSE <<"error_logging">>

\* "if self.event_peak_db >= self.threshold_db + 10"
IsExtreme(peak, threshold) == peak >= threshold + EXTREME_MARGIN

ExtremeSignals(peak, threshold) ==
    IF IsExtreme(peak, threshold) THEN <<"extreme">> ELSE <<>>

\* the row log_event inserts (avg_db is kept as the sum and the number of the
\* per-chunk levels it is the mean of); avg_db and the audio are those of the
\* chunks the caller joined into event_audio
EventRow(c) ==
    [timestamp |-> event_start_time,
     duration  |-> duration[c],
     peak_db   |-> event_peak_db,
     sum_db    |-> SumDb(event_audio[c]),
     n_db      |-> Len(event_audio[c]),
     audio     |-> event_audio[c],
     video     |-> video_filename[c]]

\* --------------------------------------------------- _finalize_event
\* _finalize_event up to the duration test: what it does to the shared state.
\* It returns at once when no event is in progress; it discards the event when
\* the duration is below 0.1 s; otherwise it goes on to FinalizeSnapshot.
FinalizeGoesOn == event_in_progress /\ ~IsShort(now - event_start_time)

\* mutant: the writer is left open
stop_video_recording_keeps_writer(writer) == writer

\* stop_video_recording: "self.video_writer.release()", "self.video_writer = None"
stop_video_recording(writer) == None

FinalizeBegin(c) ==
    IF ~event_in_progress
    THEN UNCHANGED <<event_in_progress, event_samples, video_writer,
                     video_event_filename, video_files, duration, video_filename,
                     event_audio>>
    ELSE LET vf == IF video_writer # None THEN video_event_filename ELSE None
         IN  /\ video_writer' = stop_video_recording(video_writer)
             /\ UNCHANGED event_audio
             /\ video_event_filename' =
                    IF video_writer # None THEN None ELSE video_event_filename
             /\ IF IsShort(now - event_start_time)
                THEN /\ event_in_progress' = FALSE
                     /\ event_samples' = <<>>
                     /\ video_files' = video_files \ {vf}
                     /\ UNCHANGED <<duration, video_filename>>
                ELSE /\ duration' = [duration EXCEPT ![c] = now - event_start_time]
                     /\ video_filename' = [video_filename EXCEPT ![c] = vf]
                     /\ UNCHANGED <<event_in_progress, event_samples, video_files>>

\* np.fft.rfft of an empty array raises: detect_low_frequency(b'') does not return
ClassifierRaises == event_samples = <<>>

\* _finalize_event from "Calculate average dB" to "Detect low frequency": the
\* chunks of event_samples are measured, joined into event_audio and classified
FinalizeSnapshot(c) ==
    /\ ~ClassifierRaises
    /\ event_audio' = [event_audio EXCEPT ![c] = event_samples]
    /\ UNCHANGED <<duration, video_filename>>

\* _finalize_event from "Save event audio" to the reset: save_audio_segment
\* encodes event_audio, log_event inserts the row, the event tracking is reset
FinalizeCommit(c, enc_ok, db_ok) ==
    /\ saved' = SavedAfter("event", event_audio[c], enc_ok)
    /\ db_rows' = IF Persisted(enc_ok, db_ok) THEN Append(db_rows, EventRow(c))
                  ELSE db_rows
    /\ emitted' = Emit(emitted,
                       SaveSignals(enc_ok)
                         \o (IF enc_ok
                             THEN LogSignals(db_ok)
                                    \o ExtremeSignals(event_peak_db, threshold_db)
                             ELSE <<>>))
    /\ event_in_progress' = FALSE
    /\ event_samples' = <<>>
    /\ duration' = [duration EXCEPT ![c] = 0]
    /\ video_filename' = [video_filename EXCEPT ![c] = None]
    /\ event_audio' = [event_audio EXCEPT ![c] = <<>>]

eventVars == <<event_in_progress, event_start_time, event_peak_db, event_samples>>
videoVars == <<video_writer, video_event_filename, video_files>>
finLocals == <<duration, video_filename, event_audio>>
segVars == <<current_segment>>
configVars == <<device_sample_rate, threshold_db, video_enabled>>
workerVars == <<wpc, post_event_counter, data>>


\* ------------------------------------------------------ start_recording
\* start_recording calls so far that got past the "already recording" test
Attempts == n_start + emitted["error_start"]

\* mutant: the flag is set before the stream is opened and stays set
RecordingAfterStart_set_early(open_ok) == TRUE

\* "self.recording = True" once the stream is open; "self.recording = False"
\* in the except (and the flag is still false when PyAudio is unavailable)
RecordingAfterStart(open_ok) == open_ok

\* mutant: start_recording goes on although a recording is running
AlreadyRecording_ignored == FALSE

\* "if self.recording: return"
AlreadyRecording == recording

\* open_ok = FALSE: PyAudio is unavailable or p.open raises
start_recording(open_ok) ==
    /\ UNCHANGED <<windVars, callVars>>
    /\ upc = "idle"
    /\ IF AlreadyRecording
       THEN UNCHANGED vars
       ELSE /\ Attempts < Cardinality(Threads)
            /\ IF open_ok
               THEN /\ n_start' = n_start + 1
                    /\ stream' = n_start + 1
                    /\ recording' = RecordingAfterStart(open_ok)
                    /\ current_segment' = <<>>
                    /\ wpc' = [wpc EXCEPT ![n_start + 1] = "read"]
                    /\ post_event_counter' = [post_event_counter EXCEPT ![n_start + 1] = 0]
                    /\ UNCHANGED emitted
               ELSE /\ emitted' = Emit(emitted, <<"error_start">>)
                    /\ recording' = RecordingAfterStart(open_ok)
                    /\ UNCHANGED <<n_start, stream, segVars, wpc, post_event_counter>>
            /\ UNCHANGED <<configVars, eventVars, audio_ring_buffer, video_writer,
                           video_event_filename, upc, data, finLocals, now, ingested,
                           saved, db_rows, video_files, processed, event_opened_at>>

\* ------------------------------------------------------- stop_recording
\* "if not self.recording: return"; recording = False; the stream is closed;
\* "Save any remaining segment" (current_segment is left as it is)
StopBegin(enc_ok) ==
    /\ UNCHANGED <<windVars, callVars>>
    /\ upc = "idle"
    /\ IF ~recording
       THEN /\ enc_ok
            /\ UNCHANGED vars
       ELSE /\ recording' = FALSE
            /\ stream' = None
            /\ IF current_segment # <<>>
               THEN /\ saved' = SavedAfter("segment", current_segment, enc_ok)
                    /\ emitted' = Emit(emitted, SaveSignals(enc_ok))
               ELSE /\ enc_ok
                    /\ UNCHANGED <<saved, emitted>>
            /\ upc' = "stop_finalize"
            /\ UNCHANGED <<configVars, segVars, eventVars, audio_ring_buffer,
                           video_writer, video_event_filename, workerVars, finLocals,
                           now, ingested, db_rows, video_files, n_start, processed, event_opened_at>>

\* "if self.event_in_progress: self._finalize_event()", up to the duration test
StopFinalize ==
    /\ UNCHANGED <<windVars, callVars>>
    /\ upc = "stop_finalize"
    /\ FinalizeBegin(UI)
    /\ upc' = IF FinalizeGoesOn THEN "stop_snapshot" ELSE "idle"
    /\ UNCHANGED <<recording, stream, configVars, segVars, event_start_time,
                   event_peak_db, audio_ring_buffer, workerVars, now, ingested,
                   saved, db_rows, emitted, n_start, processed, event_opened_at>>

\* _finalize_event goes on: the chunks of the event are joined and classified
StopSnapshot ==
    /\ UNCHANGED <<windVars, callVars>>
    /\ upc = "stop_snapshot"
    /\ FinalizeSnapshot(UI)
    /\ upc' = "stop_commit"
    /\ UNCHANGED <<procVars, workerVars, envVars>>

\* the rest of _finalize_event, then "Recording stopped" and the return
StopCommit(enc_ok, db_ok) ==
    /\ UNCHANGED <<windVars, callVars>>
    /\ upc = "stop_commit"
    /\ FinalizeCommit(UI, enc_ok, db_ok)
    /\ upc' = "idle"
    /\ UNCHANGED <<recording, stream, configVars, segVars, event_start_time,
                   event_peak_db, audio_ring_buffer, videoVars, workerVars, now,
                   ingested, video_files, n_start, processed, event_opened_at>>

\* detect_low_frequency raises inside _finalize_event: the exception leaves
\* stop_recording
StopCommitRaises ==
    /\ UNCHANGED <<windVars, callVars>>
    /\ upc = "stop_snapshot"
    /\ ClassifierRaises
    /\ upc' = "idle"
    /\ duration' = [duration EXCEPT ![UI] = 0]
    /\ video_filename' = [video_filename EXCEPT ![UI] = None]
    /\ UNCHANGED event_audio
    /\ UNCHANGED <<procVars, workerVars, envVars>>


\* --------------------------------------------------------- _record_loop
\* "except Exception as e: if self.recording: emit(...); break"
RecordingError == IF recording THEN <<"error_recording">> ELSE <<>>

\* "while self.recording:" fails: the thread ends.  This is also what a read
\* does that finds the stream closed by stop_recording: it raises, and with
\* recording false the "except" breaks without a report.
LoopExit(t) ==
    /\ UNCHANGED <<windVars, callVars>>
    /\ wpc[t] = "read"
    /\ ~recording
    /\ wpc' = [wpc EXCEPT ![t] = "done"]
    /\ UNCHANGED <<procVars, upc, post_event_counter, data, finLocals, envVars>>

\* "while self.recording:" holds and "data = self.stream.read(CHUNK, ...)"
\* returns the next chunk of the source
ReadChunk(t, level) ==
    /\ UNCHANGED <<windVars, callVars>>
    /\ wpc[t] = "read"
    /\ recording
    /\ ingested' = ingested + 1
    /\ now' = now + ChunkMs(device_sample_rate)
    /\ data' = [data EXCEPT ![t] = [n |-> ingested + 1, db |-> level]]
    /\ wpc' = [wpc EXCEPT ![t] = "proc"]
    /\ UNCHANGED <<procVars, upc, post_event_counter, finLocals, saved,
                   db_rows, emitted, video_files, n_start, processed, event_opened_at>>

\* the read raises while recording is true (a device error): the "except"
\* reports it and the loop is left by "break"
ReadRaises(t) ==
    /\ UNCHANGED <<windVars, callVars>>
    /\ wpc[t] = "read"
    /\ recording
    /\ emitted' = Emit(emitted, RecordingError)
    /\ wpc' = [wpc EXCEPT ![t] = "done"]
    /\ UNCHANGED <<procVars, upc, post_event_counter, data, finLocals, now,
                   ingested, saved, db_rows, video_files, n_start, processed, event_opened_at>>

\* start_video_recording(timestamp): the writer and its file are named after
\* the event's start time; vid_ok = FALSE: no camera widget or no writer
VideoName(start_time) == start_time

\* one pass of the loop body after the read, up to the call of _finalize_event:
\* segment, ring buffer, segment flush, event detection
ProcessChunk(t, seg_ok, vid_ok) ==
    LET chunk == data[t]
        db_level == calculate_db(chunk)
        segment == Append(current_segment, chunk)
        flush == SegmentFull(segment, device_sample_rate)
        loud == IsLoud(db_level, threshold_db)
        opens == loud /\ ~event_in_progress
        continues == loud /\ event_in_progress
        post_roll == ~loud /\ event_in_progress
        counter == IF loud THEN 0
                   ELSE IF event_in_progress THEN post_event_counter[t] + 1
                   ELSE post_event_counter[t]
        expired == post_roll /\ PostRollExpired(counter, device_sample_rate)
        video_starts == opens /\ video_enabled /\ vid_ok
    IN  /\ wpc[t] = "proc"
        /\ UNCHANGED <<windVars, callVars>>
        /\ flush \/ seg_ok
        /\ (opens /\ video_enabled) \/ vid_ok
        /\ current_segment' = IF flush THEN <<>> ELSE segment
        /\ saved' = IF flush THEN SavedAfter("segment", segment, seg_ok) ELSE saved
        /\ audio_ring_buffer' = RingPush(audio_ring_buffer, chunk)
        /\ event_in_progress' = (event_in_progress \/ loud)
        /\ event_start_time' = IF opens THEN now ELSE event_start_time
        /\ event_peak_db' = IF opens THEN db_level
                            ELSE IF continues THEN ContinuePeak(event_peak_db, db_level)
                            ELSE event_peak_db
        /\ event_samples' = IF opens THEN OpenSamples(audio_ring_buffer', chunk)
                            ELSE IF event_in_progress THEN Append(event_samples, chunk)
                            ELSE event_samples
        /\ video_writer' = IF video_starts THEN VideoName(now) ELSE video_writer
        /\ video_event_filename' =
               IF video_starts THEN VideoName(now) ELSE video_event_filename
        /\ video_files' = IF video_starts THEN video_files \cup {VideoName(now)}
                          ELSE video_files
        /\ emitted' = Emit(emitted,
                           (IF flush THEN SaveSignals(seg_ok) ELSE <<>>)
                             \o (IF opens /\ video_enabled /\ ~vid_ok
                                 THEN <<"error_video">> ELSE <<>>))
        /\ post_event_counter' = [post_event_counter EXCEPT ![t] = counter]
        /\ wpc' = [wpc EXCEPT ![t] = IF expired THEN "finalize" ELSE "read"]
        /\ processed' = Append(processed, chunk)
        /\ event_opened_at' = IF opens THEN Len(processed) + 1 ELSE event_opened_at
        /\ data' = [data EXCEPT ![t] = NoChunk]
        /\ UNCHANGED <<recording, stream, configVars, upc, finLocals, now,
                       ingested, db_rows, n_start>>

\* the loop's call of _finalize_event, up to the duration test; when the call
\* returns there, "post_event_counter = 0" follows
LoopFinalize(t) ==
    /\ UNCHANGED <<windVars, callVars>>
    /\ wpc[t] = "finalize"
    /\ FinalizeBegin(t)
    /\ wpc' = [wpc EXCEPT ![t] = IF FinalizeGoesOn THEN "snapshot" ELSE "read"]
    /\ post_event_counter' =
           IF FinalizeGoesOn THEN post_event_counter
           ELSE [post_event_counter EXCEPT ![t] = 0]
    /\ UNCHANGED <<recording, stream, configVars, segVars, event_start_time,
                   event_peak_db, audio_ring_buffer, upc, data, now, ingested,
                   saved, db_rows, emitted, n_start, processed, event_opened_at>>

\* _finalize_event goes on: the chunks of the event are joined and classified
LoopSnapshot(t) ==
    /\ UNCHANGED <<windVars, callVars>>
    /\ wpc[t] = "snapshot"
    /\ FinalizeSnapshot(t)
    /\ wpc' = [wpc EXCEPT ![t] = "commit"]
    /\ UNCHANGED <<procVars, upc, post_event_counter, data, envVars>>

\* the rest of _finalize_event, then "post_event_counter = 0"
LoopCommit(t, enc_ok, db_ok) ==
    /\ UNCHANGED <<windVars, callVars>>
    /\ wpc[t] = "commit"
    /\ FinalizeCommit(t, enc_ok, db_ok)
    /\ wpc' = [wpc EXCEPT ![t] = "read"]
    /\ post_event_counter' = [post_event_counter EXCEPT ![t] = 0]
    /\ UNCHANGED <<recording, stream, configVars, segVars, event_start_time,
                   event_peak_db, audio_ring_buffer, videoVars, upc, data, now,
                   ingested, n_start, processed, event_opened_at>>

\* detect_low_frequency raises inside the loop's _finalize_event: the loop's
\* "except" reports it and breaks
LoopCommitRaises(t) ==
    /\ UNCHANGED <<windVars, callVars>>
    /\ wpc[t] = "snapshot"
    /\ ClassifierRaises
    /\ emitted' = Emit(emitted, RecordingError)
    /\ wpc' = [wpc EXCEPT ![t] = "done"]
    /\ duration' = [duration EXCEPT ![t] = 0]
    /\ video_filename' = [video_filename EXCEPT ![t] = None]
    /\ UNCHANGED event_audio
    /\ UNCHANGED <<procVars, upc, post_event_counter, data, now, ingested, saved,
                   db_rows, video_files, n_start, processed, event_opened_at>>

\* --------------------------------------------------------- wind filter
\* sound_monitor.py defines none of set_wind_filter, set_wind_filter_cutoff and
\* apply_wind_filter, which test_wind_filter.py and demo_wind_filter.py call on
\* an AudioProcessor; they are modelled from section 4.5 of the specification.
\* Audio is a sequence of samples, each the tone it belongs to: its frequency
\* (Hz) and its amplitude.
WindFreqs == {50, 800}
WindAmplitudes == {0, 1}
WindCutoffs == {40, 80}
WindSamples == [freq : WindFreqs, amp : WindAmplitudes]
WindAudio == UNION {[1..k -> WindSamples] : k \in 0..MaxWindLen}

\* mutant: the filter's transient swallows the first sample
HighPass_loses_transient(audio, cutoff) ==
    IF audio = <<>> THEN audio
    ELSE Tail([i \in 1..Len(audio) |->
                 IF audio[i].freq < cutoff THEN [audio[i] EXCEPT !.amp = 0] ELSE audio[i]])

\* the high-pass filter: content below the cutoff is attenuated, content above
\* it passes; the result has the length of the input
HighPass(audio, cutoff) ==
    [i \in 1..Len(audio) |->
        IF audio[i].freq < cutoff THEN [audio[i] EXCEPT !.amp = 0] ELSE audio[i]]

\* mutant: the filter is applied whatever the setting
apply_wind_filter_always(audio, enabled, cutoff) == HighPass(audio, cutoff)

\* apply(chunk_or_buffer, enabled, cutoff_hz): "When disabled, returns input
\* unchanged"; "When enabled, applies a high-pass filter with the configured
\* cutoff"
apply_wind_filter(audio, enabled, cutoff) ==
    IF enabled THEN HighPass(audio, cutoff) ELSE audio

\* processor.set_wind_filter(enabled)
set_wind_filter(enabled) ==
    /\ wind_filter_enabled' = enabled
    /\ UNCHANGED <<wind_filter_cutoff, filter_input, filter_output>>
    /\ UNCHANGED <<procVars, threadVars, envVars, callVars>>

\* processor.set_wind_filter_cutoff(cutoff)
set_wind_filter_cutoff(cutoff) ==
    /\ wind_filter_cutoff' = cutoff
    /\ UNCHANGED <<wind_filter_enabled, filter_input, filter_output>>
    /\ UNCHANGED <<procVars, threadVars, envVars, callVars>>

\* processor.apply_wind_filter(audio_data), with the settings in force
ApplyWindFilter(audio) ==
    /\ filter_input' = audio
    /\ filter_output' = apply_wind_filter(audio, wind_filter_enabled, wind_filter_cutoff)
    /\ UNCHANGED <<wind_filter_enabled, wind_filter_cutoff>>
    /\ UNCHANGED <<procVars, threadVars, envVars, callVars>>

\* -------------------------------------------------- merge_audio_video
\* sound_monitor.py defines no merge_audio_video, which
\* test_audio_video_merge.py calls on an AudioProcessor; it is modelled from the
\* muxer's contract in section 6 of the specification.  A path is a number,
\* None an absent one; existing is the set of the paths that reference a file;
\* ffmpeg_ok tells whether the muxer succeeds on two existing files.
AudioPaths == {None, 1, 2}
VideoPaths == {None, 3, 4}
MergedPath == 5
Files == {1, 2, 3, 4}

\* the outcome of a call: it returned value, or it raised
Returns(value) == [raised |-> FALSE, value |-> value]
Raises == [raised |-> TRUE, value |-> None]

\* mutant: only the audio file is looked for
merge_audio_video_unchecked_video(audio_path, video_path, existing, ffmpeg_ok) ==
    IF audio_path = None THEN Returns(video_path)
    ELSE IF video_path = None THEN Returns(None)
    ELSE IF audio_path \notin existing THEN Returns(video_path)
    ELSE IF video_path \in existing /\ ffmpeg_ok THEN Returns(MergedPath)
    ELSE Raises

\* merge(audio_path, video_path) -> output_path: "if the audio path is absent,
\* return the video path unchanged; if the video path is absent, return
\* nothing; if either path does not reference an existing file, fall back to
\* returning the video path unchanged (best-effort, never raises)"
merge_audio_video(audio_path, video_path, existing, ffmpeg_ok) ==
    IF audio_path = None THEN Returns(video_path)
    ELSE IF video_path = None THEN Returns(None)
    ELSE IF audio_path \notin existing \/ video_path \notin existing
         THEN Returns(video_path)
    ELSE IF ffmpeg_ok THEN Returns(MergedPath)
    ELSE Returns(video_path)

\* processor.merge_audio_video(audio_path, video_path), with the files there are
MergeAudioVideo(audio_path, video_path, existing, ffmpeg_ok) ==
    /\ call_fn' = "merge_audio_video"
    /\ call_args' = [audio_path |-> audio_path, video_path |-> video_path,
                     existing |-> existing]
    /\ call_result' = merge_audio_video(audio_path, video_path, existing, ffmpeg_ok)
    /\ UNCHANGED <<procVars, threadVars, envVars, windVars>>

\* ------------------------------------------------ calculate_db on bytes
\* calculate_db(audio_data) on the bytes of audio_data.  The levels it
\* returns are in hundredths of a dB.
Bytes == {0, 1, 255}
ByteStrings == UNION {[1..k -> Bytes] : k \in 0..MaxDbBytes}
\* calibration offsets (dB) set_calibration is called with
CalibrationOffsets == {0 - 60, 0, 6}

\* one little-endian int16
Int16(lo, hi) ==
    LET u == lo + 256 * hi IN IF u >= 32768 THEN u - 65536 ELSE u

\* np.frombuffer(audio_data, dtype=np.int16) raises ValueError ("buffer size
\* must be a multiple of element size") on an odd number of bytes
FrombufferRaises(audio_data) == Len(audio_data) % 2 # 0

frombuffer(audio_data) ==
    [i \in 1..(Len(audio_data) \div 2) |-> Int16(audio_data[2 * i - 1], audio_data[2 * i])]

RECURSIVE SumSquares(_)
SumSquares(audio_array) ==
    IF audio_array = <<>> THEN 0
    ELSE Head(audio_array) * Head(audio_array) + SumSquares(Tail(audio_array))

\* np.log10 in fixed point: 1000 * log10(p / q) for p >= q >= 1, to within 2.
\* q is scaled by tens until p / q < 10, which gives the characteristic; the
\* mantissa comes from LOG_BITS squarings of p / q held in units of 1 / LOG_SCALE
LOG_SCALE == 1024
LOG_BITS == 10

RECURSIVE Characteristic(_, _)
Characteristic(p, q) == IF p >= 10 * q THEN 1 + Characteristic(p, 10 * q) ELSE 0

RECURSIVE Pow(_, _)
Pow(b, e) == IF e = 0 THEN 1 ELSE b * Pow(b, e - 1)

RECURSIVE MantissaBits(_, _)
MantissaBits(y, i) ==
    IF i > LOG_BITS THEN 0
    ELSE LET z == (y * y) \div LOG_SCALE
         IN  IF z >= 10 * LOG_SCALE
             THEN LOG_SCALE \div Pow(2, i) + MantissaBits(z \div 10, i + 1)
             ELSE MantissaBits(z, i + 1)

Log10x1000(p, q) ==
    LET k == Characteristic(p, q)
        y == (p * LOG_SCALE) \div (q * Pow(10, k))
    IN  1000 * k + (1000 * MantissaBits(y, 1)) \div LOG_SCALE

\* 20 * log10(32768.0), in hundredths of a dB
FULL_SCALE == 9031
\* the 94 of "+ 94", in dB
SPL_REFERENCE == 94

\* calculate_db: 0 for no samples and for rms < 1; otherwise
\* max(0, 20 * np.log10(rms / 32768.0) + 94 + self.calibration_offset), where
\* 20 * log10(rms) = 10 * log10(sum of squares / number of samples)
calculate_db_bytes(audio_data, calibration_offset) ==
    IF FrombufferRaises(audio_data) THEN Raises
    ELSE LET audio_array == frombuffer(audio_data)
             n == Len(audio_array)
             sum == SumSquares(audio_array)
         IN  IF n = 0 THEN Returns(0)
             ELSE IF sum < n THEN Returns(0)
             ELSE Returns(Max(0, Log10x1000(sum, n) - FULL_SCALE
                                   + 100 * SPL_REFERENCE + 100 * calibration_offset))

\* processor.set_calibration(offset); processor.calculate_db(audio_data)
CalculateDb(audio_data, calibration_offset) ==
    /\ call_fn' = "calculate_db"
    /\ call_args' = [audio_data |-> audio_data, calibration_offset |-> calibration_offset]
    /\ call_result' = calculate_db_bytes(audio_data, calibration_offset)
    /\ UNCHANGED <<procVars, threadVars, envVars, windVars>>

\* ------------------------------------------------ detect_low_frequency
\* detect_low_frequency(audio_data) on the bytes of audio_data, for the audio
\* of up to 4 samples, whose spectral energies are integers.
ClassifierBytes == {0, 1, 2}
ClassifierAudio == UNION {[1..k -> ClassifierBytes] : k \in 0..MaxClassifierBytes}
\* device_sample_rate (Hz) at the call
ClassifierRates == {80, 400, 512}

\* np.fft.rfft raises ValueError ("Invalid number of FFT data points (0)") on
\* an empty array
RfftRaises(audio_array) == audio_array = <<>>

\* 2 * cos(2 * pi * m / n) for 0 <= m < n, n in {1, 2, 3, 4, 6}
TwoCos(n, m) ==
    IF m = 0 THEN 2
    ELSE IF 2 * m = n THEN 0 - 2
    ELSE IF 4 * m = n \/ 4 * m = 3 * n THEN 0
    ELSE IF 3 * m = n \/ 3 * m = 2 * n THEN 0 - 1
    ELSE 1

\* twice np.abs(fft[k])**2: the sum over i, j of
\* x[i] * x[j] * 2 * cos(2 * pi * k * (i - j) / n), from the pair (i, j) on
RECURSIVE PairSum(_, _, _, _)
PairSum(x, k, i, j) ==
    LET n == Len(x)
    IN  IF i > n THEN 0
        ELSE IF j > n THEN PairSum(x, k, i + 1, 1)
        ELSE x[i] * x[j] * TwoCos(n, (k * (i - j + n)) % n) + PairSum(x, k, i, j + 1)

\* np.abs(fft[k])**2 for fft = np.fft.rfft(x)
BinEnergy(x, k) == PairSum(x, k, 1, 1) \div 2

\* the bins of np.fft.rfft(x) for n samples; bin k is at k * rate / n Hz
Bins(n) == 0..(n \div 2)

\* low_freq_mask = (freqs >= 20) & (freqs <= 200)
LowFreqMask(n, rate) == {k \in Bins(n) : 20 * n <= k * rate /\ k * rate <= 200 * n}

\* np.sum(np.abs(fft[mask])**2) over the bins 0..k
RECURSIVE EnergyUpTo(_, _, _)
EnergyUpTo(x, mask, k) ==
    IF k < 0 THEN 0
    ELSE (IF k \in mask THEN BinEnergy(x, k) ELSE 0) + EnergyUpTo(x, mask, k - 1)

low_freq_energy(x, rate) == EnergyUpTo(x, LowFreqMask(Len(x), rate), Len(x) \div 2)
total_energy(x) == EnergyUpTo(x, Bins(Len(x)), Len(x) \div 2)

\* mutant: a ratio of 0.4 counts as low-frequency
ExceedsRatio_inclusive(low, total) == 5 * low >= 2 * total

\* "(low_freq_energy / total_energy) > 0.4"
ExceedsRatio(low, total) == 5 * low > 2 * total

\* detect_low_frequency with self.device_sample_rate = rate
detect_low_frequency(audio_data, rate) ==
    IF FrombufferRaises(audio_data) THEN Raises
    ELSE LET audio_array == frombuffer(audio_data)
         IN  IF RfftRaises(audio_array) THEN Raises
             ELSE IF total_energy(audio_array) > 0
                  THEN Returns(ExceedsRatio(low_freq_energy(audio_array, rate),
                                            total_energy(audio_array)))
                  ELSE Returns(FALSE)

\* processor.device_sample_rate = rate; processor.detect_low_frequency(audio_data)
DetectLowFrequency(audio_data, rate) ==
    /\ device_sample_rate' = rate
    /\ call_fn' = "detect_low_frequency"
    /\ call_args' = [audio_data |-> audio_data]
    /\ call_result' = detect_low_frequency(audio_data, rate)
    /\ UNCHANGED <<recording, stream, threshold_db, current_segment, eventVars,
                   audio_ring_buffer, video_enabled, video_writer,
                   video_event_filename>>
    /\ UNCHANGED <<threadVars, envVars, windVars>>

\* ---------------------------------------------------- set_video_enabled
\* "self.video_enabled = enabled and CV2_AVAILABLE": the handler of the video
\* checkbox, run by the UI thread; cv2 = FALSE: OpenCV is not installed
set_video_enabled(enabled, cv2) ==
    /\ upc = "idle"
    /\ video_enabled' = (enabled /\ cv2)
    /\ UNCHANGED <<recording, stream, device_sample_rate, threshold_db, segVars,
                   eventVars, audio_ring_buffer, videoVars, threadVars, envVars,
                   windVars, callVars>>

\* ------------------------------------------------------ the event store
\* The events table read by the statistics and the event log.  A row holds the
\* columns of the INSERT of log_event; duration is in ms, peak_db and avg_db in
\* dB, filename is the number of the event's audio file.
StoreTimestamps == {1, 2}
StoreDurations == {0, 61500}
FilterValues == {None, 80, 90}

\* log_event(timestamp, duration, peak_db, avg_db, filename, video_filename,
\* low_freq) called on its own: the INSERT adds the row or raises (db_ok =
\* FALSE); the exception is caught and reported
log_event(timestamp, dur, peak_db, avg_db, filename, video, low_freq, db_ok) ==
    /\ db_rows' = IF db_ok
                  THEN Append(db_rows, [timestamp      |-> timestamp,
                                        duration       |-> dur,
                                        peak_db        |-> peak_db,
                                        avg_db         |-> avg_db,
                                        filename       |-> filename,
                                        video_filename |-> video,
                                        low_frequency  |-> low_freq])
                  ELSE db_rows
    /\ emitted' = Emit(emitted, LogSignals(db_ok))
    /\ UNCHANGED <<procVars, threadVars, now, ingested, saved, video_files, n_start,
                   processed, event_opened_at, windVars, callVars>>

\* Python's format of the number num / den with a fixed number of decimals,
\* as an integer in units of the last decimal: round half to even
RoundHalfEven(num, den) ==
    LET q == num \div den
        r == num % den
    IN  IF 2 * r < den THEN q
        ELSE IF 2 * r > den THEN q + 1
        ELSE IF q % 2 = 0 THEN q ELSE q + 1

\* f"{x:.1f}" of x = num / den, in tenths
FormatTenths(num, den) == RoundHalfEven(num * 10, den)

\* f"{x:.2f}" of x = num / den, in hundredths
FormatHundredths(num, den) == RoundHalfEven(num * 100, den)

RECURSIVE SumOf(_, _)
\* SUM(column) over the rows
SumOf(rows, column) ==
    IF rows = <<>> THEN 0 ELSE Head(rows)[column] + SumOf(Tail(rows), column)

RECURSIVE MaxOf(_, _)
\* MAX(column) over one row or more
MaxOf(rows, column) ==
    IF Len(rows) = 1 THEN rows[1][column]
    ELSE Max(Head(rows)[column], MaxOf(Tail(rows), column))

\* COUNT(*) ... WHERE low_frequency = 1
CountLowFrequency(rows) == Cardinality({i \in 1..Len(rows) : rows[i].low_frequency})

\* "Total Recording Time: {hours}:{minutes:02d}:{seconds:02d}" of a duration in
\* ms: int(t // 3600), int((t % 3600) // 60), int(t % 60)
TotalTimeText(total_ms) ==
    LET whole == total_ms \div 1000
    IN  <<whole \div 3600, (whole % 3600) \div 60, whole % 60>>

\* the texts of the five labels StatisticsWidget.__init__ creates
InitialLabels ==
    [total_time |-> <<0, 0, 0>>, event_count |-> 0, avg_db |-> 0, max_db |-> 0,
     low_freq_count |-> 0]

\* "c.fetchone()[0] if c.fetchone()[0] else 0" after SELECT SUM(duration): the
\* condition fetches the only row of the result; when the sum is neither NULL
\* nor 0 the value is taken from a second fetchone(), which returns None, and
\* None[0] raises TypeError
SecondFetchRaises(rows) == rows # <<>> /\ SumOf(rows, "duration") # 0

\* update_statistics(): the labels after the call, given the labels before it.
\* Every exception is swallowed by "except Exception: pass", which leaves the
\* labels as they were.
update_statistics(rows, labels) ==
    LET event_count == Len(rows)
        avg_db == IF rows = <<>> THEN 0
                  ELSE FormatTenths(SumOf(rows, "peak_db"), Len(rows))
        max_db == IF rows = <<>> THEN 0 ELSE FormatTenths(MaxOf(rows, "peak_db"), 1)
        total_duration == 0
    IN  IF SecondFetchRaises(rows) THEN labels
        ELSE [total_time     |-> TotalTimeText(total_duration),
              event_count    |-> event_count,
              avg_db         |-> avg_db,
              max_db         |-> max_db,
              low_freq_count |-> CountLowFrequency(rows)]

\* mutant: the comparison is strict
Selected_strict(row, filter_min_db) ==
    filter_min_db = None \/ row.peak_db > filter_min_db

\* "WHERE peak_db >= ?" when filter_min_db is not None, no WHERE otherwise
Selected(row, filter_min_db) ==
    filter_min_db = None \/ row.peak_db >= filter_min_db

\* the orders in which "ORDER BY timestamp DESC" may return the selected rows
\* (given by their positions in the table): the order of rows with equal
\* timestamps is not determined
FetchOrders(rows, filter_min_db) ==
    LET chosen == {i \in 1..Len(rows) : Selected(rows[i], filter_min_db)}
    IN  {order \in [1..Cardinality(chosen) -> chosen] :
            /\ \A a, b \in DOMAIN order : a # b => order[a] # order[b]
            /\ \A a, b \in DOMAIN order :
                   a < b => rows[order[a]].timestamp >= rows[order[b]].timestamp}

\* the items load_events puts in one row of the table widget
TableItems(row) ==
    [timestamp     |-> row.timestamp,
     duration      |-> FormatHundredths(row.duration, 1000),
     peak_db       |-> FormatTenths(row.peak_db, 1),
     avg_db        |-> FormatTenths(row.avg_db, 1),
     low_frequency |-> IF row.low_frequency THEN "Yes" ELSE "No",
     filename      |-> row.filename,
     video         |-> IF row.video_filename # None THEN row.video_filename ELSE None]

\* load_events(filter_min_db): the rows of the table widget after the call
load_events(rows, filter_min_db, order) ==
    [j \in 1..Len(order) |-> TableItems(rows[order[j]])]

\* log_event calls made so far in SpecStore
StoreCalls == Len(db_rows) + emitted["error_logging"]

LogEvent(timestamp, dur, peak_db, low_freq, db_ok) ==
    /\ call_fn = "none"
    /\ StoreCalls < MaxStoreRows
    /\ log_event(timestamp, dur, peak_db, peak_db, StoreCalls + 1, None,
                 low_freq, db_ok)

UpdateStatistics ==
    /\ call_fn = "none"
    /\ call_fn' = "update_statistics"
    /\ call_args' = <<>>
    /\ call_result' = Returns(update_statistics(db_rows, InitialLabels))
    /\ UNCHANGED <<procVars, threadVars, envVars, windVars>>

LoadEvents(filter_min_db, order) ==
    /\ call_fn = "none"
    /\ call_fn' = "load_events"
    /\ call_args' = [filter_min_db |-> filter_min_db]
    /\ call_result' = Returns(load_events(db_rows, filter_min_db, order))
    /\ UNCHANGED <<procVars, threadVars, envVars, windVars>>

\* ----------------------------------------------------- specifications
\* what the threads do once a recording has been started
Run(budget, Outcomes) ==
    \/ \E enc_ok \in Outcomes : StopBegin(enc_ok)
    \/ StopFinalize
    \/ StopSnapshot
    \/ \E enc_ok, db_ok \in Outcomes : StopCommit(enc_ok, db_ok)
    \/ StopCommitRaises
    \/ \E t \in Threads : LoopExit(t)
    \/ \E t \in Threads, level \in DbLevels : ingested < budget /\ ReadChunk(t, level)
    \/ \E t \in Threads : ReadRaises(t)
    \/ \E t \in Threads, seg_ok, vid_ok \in Outcomes : ProcessChunk(t, seg_ok, vid_ok)
    \/ \E t \in Threads : LoopFinalize(t)
    \/ \E t \in Threads : LoopSnapshot(t)
    \/ \E t \in Threads, enc_ok, db_ok \in Outcomes : LoopCommit(t, enc_ok, db_ok)
    \/ \E t \in Threads : LoopCommitRaises(t)

\* Spec: one recording.  start_recording is called until it has succeeded once,
\* the worker it starts runs, stop_recording is called at any moment.
Next ==
    \/ \E open_ok \in BOOLEAN : (recording \/ n_start = 0) /\ start_recording(open_ok)
    \/ Run(MaxChunks, BOOLEAN)

Spec == Init /\ [][Next]_vars

\* SpecRestart: recordings started after a recording was stopped, while the
\* worker of the stopped recording may still be running.
NextRestart ==
    \/ \E open_ok \in BOOLEAN : start_recording(open_ok)
    \/ Run(MaxRestartChunks, BOOLEAN)

SpecRestart == Init /\ [][NextRestart]_vars

\* SpecStream: one recording whose worker processes the stream undisturbed:
\* stop_recording is not called, and the source, the encoder and the database
\* do not fail.
NextStream ==
    \/ n_start = 0 /\ start_recording(TRUE)
    \/ \E t \in Threads, level \in DbLevels :
           ingested < MaxStreamChunks /\ ReadChunk(t, level)
    \/ \E t \in Threads : ProcessChunk(t, TRUE, TRUE)
    \/ \E t \in Threads : LoopFinalize(t)
    \/ \E t \in Threads : LoopSnapshot(t)
    \/ \E t \in Threads : LoopCommit(t, TRUE, TRUE)

SpecStream == Init /\ [][NextStream]_vars

\* SpecLong: one recording whose worker processes a long stream undisturbed,
\* long enough for the ring buffer to overflow and for segments to fill.  The
\* source is at 70 dB except around every FreeEvery-th chunk, where it delivers
\* any level; the encoding of a segment may fail.
LongLevels(i) ==
    IF i % FreeEvery = 0 \/ (i + 1) % FreeEvery = 0 THEN DbLevels ELSE {70}

NextLong ==
    \/ n_start = 0 /\ start_recording(TRUE)
    \/ \E t \in Threads, level \in LongLevels(ingested + 1) :
           ingested < MaxLongChunks /\ ReadChunk(t, level)
    \/ \E t \in Threads, seg_ok \in BOOLEAN : ProcessChunk(t, seg_ok, TRUE)
    \/ \E t \in Threads : LoopFinalize(t)
    \/ \E t \in Threads : LoopSnapshot(t)
    \/ \E t \in Threads : LoopCommit(t, TRUE, TRUE)

SpecLong == Init /\ [][NextLong]_vars

\* SpecWind: the wind filter is set and applied to every audio of up to
\* MaxWindLen samples.
NextWind ==
    \/ \E enabled \in BOOLEAN : set_wind_filter(enabled)
    \/ \E cutoff \in WindCutoffs : set_wind_filter_cutoff(cutoff)
    \/ \E audio \in WindAudio : ApplyWindFilter(audio)

SpecWind == Init /\ [][NextWind]_vars


\* SpecMerge: merge_audio_video is called with every pair of paths, absent ones
\* included, and every set of existing files.
NextMerge ==
    \E audio_path \in AudioPaths, video_path \in VideoPaths,
       existing \in SUBSET Files, ffmpeg_ok \in BOOLEAN :
        MergeAudioVideo(audio_path, video_path, existing, ffmpeg_ok)

SpecMerge == Init /\ [][NextMerge]_vars

\* SpecDb: calculate_db is called with every byte string of up to MaxDbBytes
\* bytes, under every calibration offset.
NextDb ==
    \E audio_data \in ByteStrings, calibration_offset \in CalibrationOffsets :
        CalculateDb(audio_data, calibration_offset)

SpecDb == Init /\ [][NextDb]_vars

\* SpecClassifier: detect_low_frequency is called once, with any byte string of
\* up to MaxClassifierBytes bytes, at any rate of ClassifierRates.
NextClassifier ==
    /\ call_fn = "none"
    /\ \E audio_data \in ClassifierAudio, rate \in ClassifierRates :
           DetectLowFrequency(audio_data, rate)

SpecClassifier == Init /\ [][NextClassifier]_vars

\* SpecVideo: one recording during which the video checkbox is switched on and
\* off at any moment; opening the video writer may fail.
NextVideo ==
    \/ \E enabled, cv2 \in BOOLEAN : set_video_enabled(enabled, cv2)
    \/ \E open_ok \in BOOLEAN : (recording \/ n_start = 0) /\ start_recording(open_ok)
    \/ Run(MaxVideoChunks, BOOLEAN)

SpecVideo == Init /\ [][NextVideo]_vars

\* SpecStore: up to MaxStoreRows events are logged, then the statistics are
\* refreshed or the event log is loaded, once.
NextStore ==
    \/ \E timestamp \in StoreTimestamps, dur \in StoreDurations,
          peak_db \in DbLevels, low_freq, db_ok \in BOOLEAN :
           LogEvent(timestamp, dur, peak_db, low_freq, db_ok)
    \/ UpdateStatistics
    \/ \E filter_min_db \in FilterValues :
           \E order \in FetchOrders(db_rows, filter_min_db) :
               LoadEvents(filter_min_db, order)

SpecStore == Init /\ [][NextStore]_vars

\* ============================================================ properties
\* a chunk against the threshold in force
Quiet(chunk) == chunk.db < threshold_db
Loud(chunk) == chunk.db >= threshold_db

\* the save_audio_segment calls made for events
EventSaves == {i \in 1..Len(saved) : saved[i].kind = "event"}

\* log_event has been called this many times
LogCalls == emitted["event_detected"] + emitted["error_logging"]

\* the largest level among the chunks of a non-empty sequence
MaxDbOf(chunks) ==
    CHOOSE m \in {chunks[i].db : i \in 1..Len(chunks)} :
        \A i \in 1..Len(chunks) : chunks[i].db <= m

\* the number of quiet chunks at the end of a sequence
RECURSIVE QuietRun(_)
QuietRun(chunks) ==
    IF chunks = <<>> \/ Loud(chunks[Len(chunks)]) THEN 0
    ELSE 1 + QuietRun(SubSeq(chunks, 1, Len(chunks) - 1))

\* a step in which thread t finishes one pass of the loop body
Processes(t) == wpc[t] = "proc" /\ wpc'[t] # "proc"

\* a step in which _finalize_event is entered, by the loop or by stop_recording
LoopFinalizes(t) == wpc[t] = "finalize" /\ wpc'[t] # "finalize"
StopFinalizes == upc = "stop_finalize" /\ upc' # "stop_finalize"

\* ------------------------------------------------------------------ C1
\* C1: as long as every chunk processed so far was below threshold_db, no
\* event is open or has been opened: event_in_progress is false, the
\* accumulator is empty, save_audio_segment was never called for an event and
\* log_event was never called.
C1_QuietStreamNoEvent ==
    (\A i \in 1..Len(processed) : Quiet(processed[i]))
        => /\ ~event_in_progress
           /\ event_samples = <<>>
           /\ EventSaves = {}
           /\ LogCalls = 0
           /\ db_rows = <<>>

\* three quiet chunks were processed and the recording was stopped
C1_Witness ==
    /\ Len(processed) >= 3
    /\ \A i \in 1..Len(processed) : Quiet(processed[i])
    /\ n_start = 1 /\ ~recording /\ upc = "idle"

C3_FinalizeAtNeededQuietChunks ==
    [][\A t \in Threads :
          (Processes(t) /\ event_in_progress)
              => ((wpc'[t] = "finalize")
                    <=> (QuietRun(processed')
                            = (post_event_buffer_seconds * device_sample_rate) \div CHUNK))]_vars

\* ------------------------------------------------------------------ C4
\* C4: a pass of the loop that finds an event in its post-roll (counter at
\* least 1 and below the needed count) and a chunk at or above threshold_db
\* continues that event: the chunk is appended, the peak becomes the larger of
\* the peak and the chunk's level, the start time stays, the counter is reset
\* to 0, _finalize_event is not called and nothing is saved or logged.
C4_LoudChunkInPostRollResumes ==
    [][\A t \in Threads :
          (/\ Processes(t)
           /\ event_in_progress
           /\ post_event_counter[t] >= 1
           /\ post_event_counter[t] < (post_event_buffer_seconds * device_sample_rate) \div CHUNK
           /\ Loud(data[t]))
              => /\ event_in_progress'
                 /\ event_samples' = event_samples \o <<data[t]>>
                 /\ event_peak_db' = (IF data[t].db > event_peak_db
                                      THEN data[t].db ELSE event_peak_db)
                 /\ event_start_time' = event_start_time
                 /\ event_opened_at' = event_opened_at
                 /\ post_event_counter'[t] = 0
                 /\ wpc'[t] = "read"
                 /\ db_rows' = db_rows
                 /\ EventSaves' = EventSaves
                 /\ LogCalls' = LogCalls]_vars

\* an event opened at 95 dB went into post-roll and was resumed at 80 dB
C4_Witness ==
    /\ event_in_progress
    /\ Len(processed) >= 3
    /\ event_opened_at = Len(processed) - 2
    /\ processed[Len(processed) - 2].db = 95
    /\ Quiet(processed[Len(processed) - 1])
    /\ processed[Len(processed)].db = 80
    /\ event_peak_db = 95
    /\ \E t \in Threads : wpc[t] = "read" /\ post_event_counter[t] = 0

C6_ShortEventDiscarded ==
    [][((StopFinalizes \/ \E t \in Threads : LoopFinalizes(t))
          /\ event_in_progress /\ now - event_start_time < 100)
          => /\ ~event_in_progress'
             /\ event_samples' = <<>>
             /\ saved' = saved
             /\ db_rows' = db_rows
             /\ emitted' = emitted
             /\ StopFinalizes => upc' = "idle"
             /\ \A t \in Threads : LoopFinalizes(t) => wpc'[t] = "read"]_vars

\* the last chunk processed opened an event, the recording was stopped, and
\* the event is gone without any save_audio_segment call for it
C6_Witness ==
    /\ n_start = 1 /\ ~recording /\ upc = "idle"
    /\ event_opened_at >= 1
    /\ event_opened_at = Len(processed)
    /\ event_start_time = now
    /\ ~event_in_progress /\ event_samples = <<>>
    /\ EventSaves = {}
    /\ db_rows = <<>>

\* ------------------------------------------------------------------ C7
\* the post-roll length in chunks, for the rate the stream was opened at
NeededQuiet == (post_event_buffer_seconds * device_sample_rate) \div CHUNK

\* the time between two reads, in ms
ReadMs == (1000 * CHUNK) \div device_sample_rate

\* the positions of the chunks at or above the threshold
LoudAt(chunks) == {i \in 1..Len(chunks) : Loud(chunks[i])}

\* every loud chunk is a single spike: the NeededQuiet chunks after it, as far
\* as they have arrived, are quiet
IsolatedSpikes(chunks) ==
    \A i \in LoudAt(chunks) :
        \A j \in (i + 1)..(i + NeededQuiet) : j <= Len(chunks) => Quiet(chunks[j])

\* the spikes whose post-roll has arrived in full
CompletedSpikes(chunks) == {i \in LoudAt(chunks) : i + NeededQuiet <= Len(chunks)}

\* no thread is inside a pass of the loop or inside _finalize_event
LoopAtRest == upc = "idle" /\ \A t \in Threads : wpc[t] \in {"unborn", "read"}

\* C7: when the stream processed so far consists of isolated single loud
\* chunks, each followed by post_event_samples_needed quiet chunks that span at
\* least 0.1 s, and encoding and the insert succeed, there is exactly one row per
\* spike whose post-roll is complete: the k-th row has the k-th spike's level as
\* its peak and ends with that spike and its post-roll, so no two spikes are
\* merged and none is lost.
C7_IsolatedSpikesYieldOneEventEach ==
    (LoopAtRest /\ IsolatedSpikes(processed) /\ NeededQuiet * ReadMs >= 100)
        => /\ Len(db_rows) = Cardinality(CompletedSpikes(processed))
           /\ \A i \in CompletedSpikes(processed) :
                 LET k == Cardinality({j \in CompletedSpikes(processed) : j <= i})
                     audio == db_rows[k].audio
                 IN  /\ db_rows[k].peak_db = processed[i].db
                     /\ Len(audio) >= NeededQuiet + 1
                     /\ SubSeq(audio, Len(audio) - NeededQuiet, Len(audio))
                          = SubSeq(processed, i, i + NeededQuiet)
           /\ emitted["event_detected"] = Len(db_rows)

\* two spikes, each followed by a post-roll of two quiet chunks, gave two rows
C7_Witness ==
    /\ LoopAtRest
    /\ NeededQuiet = 2
    /\ IsolatedSpikes(processed)
    /\ Cardinality(LoudAt(processed)) = 2
    /\ Len(db_rows) = 2
    /\ db_rows[1].timestamp < db_rows[2].timestamp

\* ------------------------------------------------------------------ C8
\* chunks is a quiet chunks, then b loud chunks, then c quiet chunks
SingleRun(chunks, a, b, c) ==
    /\ Len(chunks) = a + b + c
    /\ \A i \in 1..a : Quiet(chunks[i])
    /\ \A i \in (a + 1)..(a + b) : Loud(chunks[i])
    /\ \A i \in (a + b + 1)..(a + b + c) : Quiet(chunks[i])

\* C8: when the stream processed so far is one contiguous run of loud chunks
\* followed by quiet chunks, and encoding and the insert succeed, there is no
\* row while the quiet chunks are fewer than post_event_samples_needed, and
\* exactly one row once they number post_event_samples_needed: its peak is the
\* largest level of the run, its audio ends with the run and the post-roll, it
\* starts when the first loud chunk is processed and lasts until the last
\* post-roll chunk is.
C8_SingleRunYieldsOneEvent ==
    LoopAtRest =>
        \A a \in 0..Len(processed), b \in 1..Len(processed), c \in 0..NeededQuiet :
            SingleRun(processed, a, b, c) =>
                IF c < NeededQuiet
                THEN db_rows = <<>> /\ event_in_progress /\ EventSaves = {}
                ELSE /\ Len(db_rows) = 1
                     /\ ~event_in_progress
                     /\ event_samples = <<>>
                     /\ db_rows[1].peak_db = MaxDbOf(SubSeq(processed, a + 1, a + b))
                     /\ Len(db_rows[1].audio) >= b + c
                     /\ SubSeq(db_rows[1].audio, Len(db_rows[1].audio) - (b + c) + 1,
                               Len(db_rows[1].audio))
                          = SubSeq(processed, a + 1, a + b + c)
                     /\ db_rows[1].timestamp = (a + 1) * ReadMs
                     /\ db_rows[1].duration = (b + c - 1) * ReadMs
                     /\ emitted["event_detected"] = 1

\* a quiet chunk, a run of 80 dB then 95 dB, and a post-roll of two chunks
\* gave one row
C8_Witness ==
    /\ LoopAtRest
    /\ NeededQuiet = 2
    /\ SingleRun(processed, 1, 2, 2)
    /\ processed[2].db = 80
    /\ processed[3].db = 95
    /\ Len(db_rows) = 1
    /\ db_rows[1].peak_db = 95

\* ------------------------------------------------------------------ C9
\* a step in which stop_recording's call of _finalize_event gets past the
\* duration test and returns
StopCommits == upc = "stop_commit" /\ upc' = "idle"

\* a step in which stop_recording's call of _finalize_event joins the chunks of
\* the event
StopSnapshots == upc = "stop_snapshot" /\ upc' = "stop_commit"

\* the step made one save_audio_segment call for the event, and it succeeded
EncodedNow ==
    /\ Len(saved') = Len(saved) + 1
    /\ saved'[Len(saved')].kind = "event"
    /\ saved'[Len(saved')].ok

\* the step appended a row
RowAddedNow == Len(db_rows') = Len(db_rows) + 1 /\ SubSeq(db_rows', 1, Len(db_rows)) = db_rows

\* C9 as stated: stop_recording's finalize of an event in progress of at least
\* 0.1 s persists the event if and only if its encoding succeeds.
C9_StopPersistsIffEncoded ==
    [][(StopCommits /\ event_in_progress) => (RowAddedNow <=> EncodedNow)]_vars

\* C9, amended: stop_recording called with no event in progress finalizes
\* nothing; called with an event in progress it discards the event when its
\* duration is below 0.1 s and otherwise finalizes it with the chunks
\* accumulated so far, and the event is persisted if and only if its encoding
\* succeeds and the database insert succeeds.
C9_StopForceFinalizes ==
    [][/\ (StopFinalizes /\ ~event_in_progress)
            => /\ upc' = "idle"
               /\ UNCHANGED <<event_in_progress, event_samples, event_peak_db,
                              event_start_time, saved, db_rows, emitted>>
       /\ (StopFinalizes /\ event_in_progress /\ now - event_start_time < 100)
            => /\ upc' = "idle"
               /\ ~event_in_progress'
               /\ UNCHANGED <<saved, db_rows, emitted>>
       /\ (StopFinalizes /\ event_in_progress /\ now - event_start_time >= 100)
            => /\ upc' = "stop_snapshot"
               /\ duration'[UI] = now - event_start_time
               /\ UNCHANGED <<event_in_progress, event_samples, saved, db_rows, emitted>>
       /\ StopSnapshots
            => /\ event_audio'[UI] = event_samples
               /\ UNCHANGED <<event_in_progress, event_samples, saved, db_rows, emitted>>
       /\ StopCommits
            => /\ RowAddedNow \/ db_rows' = db_rows
               /\ RowAddedNow
                    <=> (EncodedNow /\ emitted'["error_logging"] = emitted["error_logging"])
               /\ RowAddedNow
                    => /\ db_rows'[Len(db_rows')].audio = event_audio[UI]
                       /\ db_rows'[Len(db_rows')].duration = duration[UI]
                       /\ db_rows'[Len(db_rows')].duration >= 100
                       /\ db_rows'[Len(db_rows')].peak_db = event_peak_db
                       /\ db_rows'[Len(db_rows')].timestamp = event_start_time
               /\ event_in_progress => (~event_in_progress' /\ event_samples' = <<>>)]_vars

\* stop_recording was called while the event was active (the last chunk of the
\* event is a loud one, so the loop had not finalized it) and persisted it
C9_Witness ==
    /\ n_start = 1 /\ ~recording /\ upc = "idle"
    /\ Len(db_rows) = 1
    /\ Loud(db_rows[1].audio[Len(db_rows[1].audio)])
    /\ db_rows[1].duration >= 100
    /\ ~event_in_progress

\* ----------------------------------------------------------------- C10
\* stop_recording has been called and has returned
StopReturned == n_start >= 1 /\ ~recording /\ upc = "idle"

\* C10: once stop_recording has returned, no worker reads a chunk, finishes a
\* pass of the loop or runs _finalize_event.
C10_NoWorkerStepAfterStop ==
    [][StopReturned => /\ ingested' = ingested
                       /\ processed' = processed
                       /\ \A t \in Threads : wpc'[t] \in {wpc[t], "done"}]_vars

\* ----------------------------------------------------------------- C11
\* every worker thread that was started has left _record_loop
WorkersExited == \A t \in Threads : wpc[t] \in {"unborn", "done"}

\* C11: once stop_recording has returned and the worker has exited, no opened
\* event remains unfinalized: event_in_progress is false and the accumulator
\* is empty.
C11_NoEventLeftOpenAfterShutdown ==
    (StopReturned /\ WorkersExited) => (~event_in_progress /\ event_samples = <<>>)

\* ----------------------------------------------------------------- C12
\* some worker thread is inside _record_loop
WorkerRunning ==
    \E t \in Threads : wpc[t] \in {"read", "proc", "finalize", "snapshot", "commit"}

\* a step of the UI thread: of stop_recording, or of a start_recording call
\* that starts a thread
UIStep == upc' # upc \/ n_start' # n_start

\* C12: while a worker thread is running, no step of another thread writes the
\* ring buffer, the event-detector state or the segment accumulator.
C12_OnlyWorkerWritesDetectorState ==
    [][(WorkerRunning /\ UIStep)
          => UNCHANGED <<audio_ring_buffer, event_in_progress, event_start_time,
                         event_peak_db, event_samples, current_segment>>]_vars

\* ----------------------------------------------------------------- C13
\* a step in which thread t's read fails while recording is true, and the
\* failure is reported
ReadFails(t) ==
    /\ wpc[t] = "read"
    /\ recording
    /\ emitted'["error_recording"] = emitted["error_recording"] + 1

\* C13: when a chunk read fails while stop has not been requested, the error is
\* reported, the detector, the ring buffer and the segment are left as they
\* are, and the worker goes on to its next read.
C13_ReadFailureIsSkipped ==
    [][\A t \in Threads :
          ReadFails(t)
              => /\ UNCHANGED <<audio_ring_buffer, event_in_progress, event_start_time,
                                event_peak_db, event_samples, current_segment>>
                 /\ post_event_counter'[t] = post_event_counter[t]
                 /\ wpc'[t] = "read"]_vars

\* ----------------------------------------------------------------- C14
\* the step made one save_audio_segment call for an event, and it failed
EncodingFailsNow ==
    /\ Len(saved') = Len(saved) + 1
    /\ saved'[Len(saved')].kind = "event"
    /\ ~saved'[Len(saved')].ok

\* C14: when the encoding of a finalized event's audio fails, the failure is
\* reported through error_occurred, no row is inserted, log_event is not called
\* (no event_detected, no "Error logging event", no extreme status) and the
\* detector is idle again with an empty accumulator.
C14_EncodingFailureDropsEvent ==
    [][EncodingFailsNow
          => /\ \E c \in Callers : saved'[Len(saved')].audio = event_audio[c]
             /\ emitted'["error_saving"] = emitted["error_saving"] + 1
             /\ db_rows' = db_rows
             /\ emitted'["event_detected"] = emitted["event_detected"]
             /\ emitted'["error_logging"] = emitted["error_logging"]
             /\ emitted'["extreme"] = emitted["extreme"]
             /\ ~event_in_progress'
             /\ event_samples' = <<>>]_vars

\* the loop finalized an event of 95 dB at the end of its post-roll, the
\* encoding failed, and nothing was logged
C14_Witness ==
    /\ recording
    /\ Len(saved) >= 1
    /\ saved[Len(saved)].kind = "event"
    /\ ~saved[Len(saved)].ok
    /\ Quiet(saved[Len(saved)].audio[Len(saved[Len(saved)].audio)])
    /\ \E i \in 1..Len(saved[Len(saved)].audio) : saved[Len(saved)].audio[i].db = 95
    /\ emitted["error_saving"] >= 1
    /\ db_rows = <<>>
    /\ emitted["event_detected"] = 0
    /\ ~event_in_progress

\* ----------------------------------------------------------------- C15
\* the step called log_event and its INSERT failed
InsertFailsNow == emitted'["error_logging"] = emitted["error_logging"] + 1

\* C15: when the INSERT of an event fails after its audio was encoded, the
\* failure is reported through error_occurred (that is the premise's report),
\* the audio file written in the same step stays, no row is added, no
\* event_detected is emitted and the detector is idle again with an empty
\* accumulator; no step ever removes an audio file once written.
C15_InsertFailureKeepsAudio ==
    [][/\ InsertFailsNow
            => /\ EncodedNow
               /\ \E c \in Callers : saved'[Len(saved')].audio = event_audio[c]
               /\ db_rows' = db_rows
               /\ emitted'["event_detected"] = emitted["event_detected"]
               /\ ~event_in_progress'
               /\ event_samples' = <<>>
       /\ Len(saved') >= Len(saved)
       /\ SubSeq(saved', 1, Len(saved)) = saved]_vars

\* an event of at least 0.1 s was encoded, its INSERT failed, and the file is
\* there without a row
C15_Witness ==
    /\ emitted["error_logging"] = 1
    /\ emitted["event_detected"] = 0
    /\ db_rows = <<>>
    /\ ~event_in_progress
    /\ \E i \in 1..Len(saved) : saved[i].kind = "event" /\ saved[i].ok

\* ----------------------------------------------------------------- C16
\* the step emitted event_detected for the event in progress
EventEmittedNow == emitted'["event_detected"] = emitted["event_detected"] + 1

\* C16: a step emits the extreme notification exactly when it emits
\* event_detected for an event whose peak_db is at least threshold_db + 10, and
\* then once.
C16_ExtremeIffEmittedAndLoud ==
    [][emitted'["extreme"] - emitted["extreme"]
          = (IF EventEmittedNow /\ event_peak_db >= threshold_db + 10 THEN 1 ELSE 0)]_vars

\* ----------------------------------------------------------------- C17
\* the last k elements of a sequence
LastOf(chunks, k) == SubSeq(chunks, Len(chunks) - k + 1, Len(chunks))

\* the smaller of two numbers
Min(a, b) == IF a <= b THEN a ELSE b

\* C17: the ring buffer never holds more than max_ring_buffer_samples chunks,
\* and after n chunks have been pushed it holds the last
\* min(n, max_ring_buffer_samples) of them, in the order of their pushing.
C17_RingHoldsLastChunks ==
    /\ Len(audio_ring_buffer) <= max_ring_buffer_samples
    /\ audio_ring_buffer
         = LastOf(processed, Min(Len(processed), max_ring_buffer_samples))

\* more chunks were pushed than the buffer holds: the oldest are gone
C17_Witness ==
    /\ Len(processed) >= max_ring_buffer_samples + 2
    /\ Len(audio_ring_buffer) = max_ring_buffer_samples
    /\ audio_ring_buffer[1].n = Len(processed) - max_ring_buffer_samples + 1
    /\ audio_ring_buffer[Len(audio_ring_buffer)].n = Len(processed)

\* ----------------------------------------------------------------- C18
\* C18: once the stream is open, the ring buffer's capacity is
\* ceil(pre_event_buffer_seconds * device_sample_rate / CHUNK), the least
\* number of chunks that cover the pre-roll at the rate the stream was
\* opened with.
C18_CapacityIsCeilAtDeviceRate ==
    n_start >= 1
        => /\ max_ring_buffer_samples * CHUNK
                 >= pre_event_buffer_seconds * device_sample_rate
           /\ (max_ring_buffer_samples - 1) * CHUNK
                 < pre_event_buffer_seconds * device_sample_rate

\* ----------------------------------------------------------------- C19
\* the save_audio_segment calls made for archival segments
SegmentSaves(calls) == {i \in 1..Len(calls) : calls[i].kind = "segment"}

\* C19: every pass of the loop, whatever the event-detector state, appends its
\* chunk to the segment accumulator; when the accumulated sample count then
\* reaches RECORD_SECONDS * device_sample_rate, the accumulated chunks are handed
\* in order to one save_audio_segment call and the accumulator restarts empty,
\* and otherwise no segment is saved; so after every pass the accumulated sample
\* count is below RECORD_SECONDS * device_sample_rate.
C19_SegmentFlushedWhenFull ==
    [][\A t \in Threads :
          Processes(t)
              => LET segment == current_segment \o <<data[t]>>
                 IN  /\ IF Len(segment) * CHUNK >= RECORD_SECONDS * device_sample_rate
                        THEN /\ current_segment' = <<>>
                             /\ Len(saved') = Len(saved) + 1
                             /\ SubSeq(saved', 1, Len(saved)) = saved
                             /\ saved'[Len(saved')].kind = "segment"
                             /\ saved'[Len(saved')].audio = segment
                        ELSE /\ current_segment' = segment
                             /\ SegmentSaves(saved') = SegmentSaves(saved)
                     /\ Len(current_segment') * CHUNK < RECORD_SECONDS * device_sample_rate]_vars

\* a segment of RECORD_SECONDS was flushed by a pass that found an event in
\* progress and a loud chunk: the event goes on and the accumulator is empty
C19_Witness ==
    /\ event_in_progress
    /\ current_segment = <<>>
    /\ Len(saved) >= 1
    /\ saved[Len(saved)].kind = "segment"
    /\ Len(saved[Len(saved)].audio) * CHUNK = RECORD_SECONDS * device_sample_rate
    /\ Len(processed) >= 2
    /\ Loud(processed[Len(processed)])
    /\ Loud(processed[Len(processed) - 1])
    /\ event_opened_at = Len(processed) - 1

\* ----------------------------------------------------------------- C20
\* C20: with the wind filter disabled, apply_wind_filter returns its input
\* unchanged, sample for sample, for every input, the empty one included.
C20_DisabledFilterIsIdentity ==
    [][(~wind_filter_enabled /\ (filter_input' # filter_input \/ filter_output' # filter_output))
          => filter_output' = filter_input']_vars

\* the filter was set to a cutoff of 80 Hz and disabled, and a 50 Hz tone it
\* would attenuate came back unchanged
C20_Witness ==
    /\ ~wind_filter_enabled
    /\ wind_filter_cutoff = 80
    /\ Len(filter_input) = MaxWindLen
    /\ filter_input[1] = [freq |-> 50, amp |-> 1]
    /\ filter_output = filter_input

\* ----------------------------------------------------------------- C21
\* C21: with the wind filter enabled, apply_wind_filter returns audio of the
\* length of its input, for every cutoff and every input: the empty one, one
\* of a single sample and an all-zero one included.
C21_EnabledFilterKeepsLength ==
    [][(wind_filter_enabled /\ (filter_input' # filter_input \/ filter_output' # filter_output))
          => Len(filter_output') = Len(filter_input')]_vars

\* the enabled filter, at a cutoff of 80 Hz, was applied to a full-length audio
\* that starts with a 50 Hz sample: the sample came back attenuated and the
\* result is as long as the input
C21_Witness ==
    /\ wind_filter_enabled
    /\ wind_filter_cutoff = 80
    /\ Len(filter_input) = MaxWindLen
    /\ filter_input[1] = [freq |-> 50, amp |-> 1]
    /\ filter_output # filter_input
    /\ Len(filter_output) = MaxWindLen

\* ----------------------------------------------------------------- C22
\* C22: merge_audio_video never raises; it returns the video path when the
\* audio path is None, None when the video path is None, and the video path
\* when either path references no existing file.
C22_MergeFallsBackOnMissingInputs ==
    call_fn = "merge_audio_video" =>
        /\ ~call_result.raised
        /\ call_args.audio_path = None => call_result.value = call_args.video_path
        /\ call_args.video_path = None => call_result.value = None
        /\ (call_args.audio_path # None /\ call_args.video_path # None
              /\ (call_args.audio_path \notin call_args.existing
                    \/ call_args.video_path \notin call_args.existing))
             => call_result.value = call_args.video_path

\* the call was made with an audio file that exists and a video path that
\* references no file, and it returned the video path
C22_Witness ==
    /\ call_fn = "merge_audio_video"
    /\ call_args.audio_path = 1
    /\ call_args.video_path = 3
    /\ call_args.existing = {1}
    /\ call_result = [raised |-> FALSE, value |-> 3]

\* ----------------------------------------------------------------- C23
\* C23: calculate_db never raises and returns a number >= 0, for every byte
\* string and every calibration offset; it returns 0 when the chunk is empty
\* or its RMS is below 1 (the sum of the squared samples is below their number).
C23_CalculateDbTotalAndNonNegative ==
    call_fn = "calculate_db" =>
        /\ ~call_result.raised
        /\ call_result.value >= 0
        /\ (call_args.audio_data = <<>>
              \/ SumSquares(frombuffer(call_args.audio_data))
                   < Len(frombuffer(call_args.audio_data)))
             => call_result.value = 0

\* ----------------------------------------------------------------- C24
\* the samples of the latest detect_low_frequency call, and their energy in the
\* bins with 20 <= frequency <= 200 Hz (bin k of n is at k * rate / n Hz)
ClassifiedSamples == frombuffer(call_args.audio_data)
ClassifiedLowBand ==
    {k \in 0..(Len(ClassifiedSamples) \div 2) :
        /\ 20 * Len(ClassifiedSamples) <= k * device_sample_rate
        /\ k * device_sample_rate <= 200 * Len(ClassifiedSamples)}
ClassifiedLow ==
    EnergyUpTo(ClassifiedSamples, ClassifiedLowBand, Len(ClassifiedSamples) \div 2)
ClassifiedTotal ==
    EnergyUpTo(ClassifiedSamples, 0..(Len(ClassifiedSamples) \div 2),
               Len(ClassifiedSamples) \div 2)

C25_ClassifierDegradesGracefully ==
    (call_fn = "detect_low_frequency" /\ Len(call_args.audio_data) % 2 = 0) =>
        /\ ~call_result.raised
        /\ call_result.value \in BOOLEAN
        /\ (\A i \in 1..Len(call_args.audio_data) : call_args.audio_data[i] = 0)
             => call_result.value = FALSE

\* ----------------------------------------------------------------- C26
\* C26: each opened event is encoded and persisted at most once, whatever the
\* interleaving of the worker's finalize with stop_recording's; so no two
\* database records are of the same event (within one recording an event is
\* identified by its start time).
C26_EventPersistedAtMostOnce ==
    \A i, j \in 1..Len(db_rows) :
        i < j => db_rows[i].timestamp # db_rows[j].timestamp

\* ----------------------------------------------------------------- C27
\* the worker threads that have been started and have not left _record_loop
AliveWorkers ==
    {t \in Threads : wpc[t] \in {"read", "proc", "finalize", "snapshot", "commit"}}

\* C27: at most one record-loop worker thread is alive at any time, whatever
\* the sequence of start_recording and stop_recording calls.
C27_AtMostOneWorkerAlive == Cardinality(AliveWorkers) <= 1

\* ----------------------------------------------------------------- C28
\* C28: the chunks accumulated for the event in progress are a contiguous run
\* of the ingested stream, in ingestion order, and no chunk occurs twice: each
\* chunk of event_samples is the one ingested right after its predecessor.
C28_EventSamplesContiguous ==
    event_in_progress =>
        \A i \in 1..(Len(event_samples) - 1) :
            event_samples[i + 1].n = event_samples[i].n + 1

\* ----------------------------------------------------------------- C29
\* the places (save call, position) where the chunk ingested as the n-th is
\* archived: the save_audio_segment calls made for segments that hold it
ArchivedAt(n) ==
    {p \in SegmentSaves(saved) \X (1..ingested + 1) :
        p[2] <= Len(saved[p[1]].audio) /\ saved[p[1]].audio[p[2]].n = n}

\* C29: once stop_recording has returned, every chunk ingested since
\* start_recording has been handed to save_audio_segment in exactly one
\* archival segment: none is lost and none is archived twice.
C29_EveryChunkArchivedOnce ==
    StopReturned => \A n \in 1..ingested : Cardinality(ArchivedAt(n)) = 1

\* ----------------------------------------------------------------- C30
\* a start_recording call that failed to acquire the audio source: it reported
\* "PyAudio not available" or "Error starting recording"
StartFailsNow == emitted'["error_start"] = emitted["error_start"] + 1

\* C30: a start_recording call that fails to acquire the audio source reports
\* the error, leaves recording false, opens no stream and starts no worker
\* thread; with recording false the next start_recording call gets past the
\* "already recording" test and tries again.
C30_FailedStartLeavesIdle ==
    [][StartFailsNow
          => /\ ~recording
             /\ ~recording'
             /\ n_start' = n_start
             /\ wpc' = wpc
             /\ stream' = stream
             /\ UNCHANGED <<current_segment, eventVars, saved, db_rows>>]_vars

\* a start_recording call failed, no worker had been started by it, and the
\* call made after it opened the stream and started the first worker
C30_Witness ==
    /\ emitted["error_start"] = 1
    /\ n_start = 1
    /\ recording
    /\ wpc = <<"read", "unborn">>
    /\ stream = 1


\* C31: start_recording called while recording is already true and
\* stop_recording called while recording is false are no-ops.  A call that
\* returns at once leaves every variable as it was, so the claim is stated by
\* its effects: a step of the UI thread that starts a worker thread, opens a
\* stream, empties the segment or reports a start failure is taken with
\* recording false, and the step by which stop_recording gets past its test
\* (the one that closes the stream and flushes the segment, and the only way
\* into the finalize of stop_recording) is taken with recording true.
C31_RedundantCallsAreNoOps ==
    [][ /\ ( \/ n_start' # n_start
             \/ emitted'["error_start"] # emitted["error_start"]
             \/ \E t \in Threads : wpc[t] = "unborn" /\ wpc'[t] # "unborn"
             \/ (upc = "idle" /\ upc' = "idle" /\ stream' # stream /\ stream' # None) )
            => ~recording
        /\ ( /\ upc = "idle"
             /\ upc' # "idle" )
            => recording ]_vars

\* a recording is running with an open event, a non-empty segment and a
\* second thread still unborn: a second start_recording would matter
C31_Witness ==
    /\ recording
    /\ upc = "idle"
    /\ n_start = 1
    /\ event_in_progress
    /\ current_segment # <<>>
    /\ wpc[2] = "unborn"


\* C32: for every persisted event, avg_db (the mean of the per-chunk levels
\* over the whole accumulated span, pre-roll and post-roll included) is at
\* most peak_db: the sum of the levels is at most peak_db times their number.
C32_AvgAtMostPeak ==
    \A i \in 1..Len(db_rows) :
        db_rows[i].sum_db <= db_rows[i].peak_db * db_rows[i].n_db

\* ----------------------------------------------------------------- C33
\* the worker is between two passes of its loop
WorkerBetweenSteps == \E t \in Threads : wpc[t] = "read"

\* a thread runs _finalize_event up to its duration test
FinalizeStep ==
    \/ upc = "stop_finalize" /\ upc' # upc
    \/ \E t \in Threads : wpc[t] = "finalize" /\ wpc'[t] # wpc[t]

\* an event is opened
EventOpensNow == ~event_in_progress /\ event_in_progress'

C34_StatisticsShowQueryResults ==
    (call_fn = "update_statistics" /\ Len(db_rows) >= 1) =>
        LET n == Len(db_rows)
            shown == call_result.value
            seconds == SumOf(db_rows, "duration") \div 1000
        IN  /\ shown.event_count = n
            /\ shown.avg_db = FormatTenths(SumOf(db_rows, "peak_db"), n)
            /\ \E i \in 1..n : shown.max_db = 10 * db_rows[i].peak_db
            /\ \A i \in 1..n : shown.max_db >= 10 * db_rows[i].peak_db
            /\ shown.total_time = <<seconds \div 3600, (seconds % 3600) \div 60, seconds % 60>>
            /\ shown.low_freq_count = Cardinality({i \in 1..n : db_rows[i].low_frequency})


\* ----------------------------------------------------------------- C35
\* the number of rows of a sequence that are equal to row
Occurrences(rows, row) == Cardinality({i \in 1..Len(rows) : rows[i] = row})

\* the table rows the events at the positions of a set would be shown as
ShownAs(positions) == {TableItems(db_rows[i]) : i \in positions}

\* C35: every event persisted through log_event is retrievable: load_events
\* with minimum level m shows exactly the persisted events whose peak_db >= m,
\* load_events without a filter shows all of them, and each event is shown
\* exactly once (as many table rows as there are such events, and each shown
\* row as often as there are such events shown that way).
C35_PersistedEventsAreRetrievable ==
    call_fn = "load_events" =>
        LET m == call_args.filter_min_db
            shown == call_result.value
            wanted == IF m = None THEN 1..Len(db_rows)
                      ELSE {i \in 1..Len(db_rows) : db_rows[i].peak_db >= m}
        IN  /\ ~call_result.raised
            /\ Len(shown) = Cardinality(wanted)
            /\ \A i \in wanted :
                   Occurrences(shown, TableItems(db_rows[i]))
                     = Cardinality({j \in wanted : TableItems(db_rows[j]) = TableItems(db_rows[i])})
            /\ \A j \in 1..Len(shown) : shown[j] \in ShownAs(wanted)

\* two events were persisted, one at 80 dB and one below it; the event log
\* loaded with minimum level 80 shows the first and not the second
C35_Witness ==
    /\ call_fn = "load_events"
    /\ call_args.filter_min_db = 80
    /\ Len(db_rows) = 2
    /\ \E i, j \in 1..2 : db_rows[i].peak_db = 80 /\ db_rows[j].peak_db = 70
    /\ Len(call_result.value) = 1

====
